---- MODULE Spec2Model ----
(***************************************************************************)
(* The notebook machinelearning3.ipynb as a state machine.  The state is   *)
(* the kernel's namespace (the notebook's variables), the files on disk    *)
(* and the position of the run; there is one action per statement group of *)
(* a code cell, taken in the order of the cells.  Library calls are        *)
(* modelled by their documented contract; what the library computes from   *)
(* the numbers (a fitted model's predictions, a cross-validation score) is *)
(* drawn from a small set.                                                 *)
(*                                                                         *)
(* A table is kept as a sequence of runs <<[k, n], ...>>: n consecutive    *)
(* rows of kind k, a row kind giving the value of every column.  After a   *)
(* random split the order is lost and a table is a bag (kind -> count).    *)
(* Real numbers are exact: [n, d, root] is the root-th root of n/d.        *)
(***************************************************************************)
EXTENDS Integers, Sequences, FiniteSets, TLC

(* ------------------------------ bounds -------------------------------- *)
\* ordinary quasar rows of a full catalogue: the least n with ceil(n/4) > 571
BulkRows == 2288
\* rows of a catalogue too short for the neighbour searches
SmallRows == 2
\* rows of a catalogue long enough to tune on, too short for X_test[571]
MidRows == 400
\* rows of each unusual kind in a file
MaxSpecial == 1
\* distinct random states a forest can be grown from
NumSeeds == 2

(* ------------------------- program constants -------------------------- *)
BadMagnitude == -9999
ColorLimit == 10
HeadRows == 1000
TestSizeNum == 1
TestSizeDen == 4
KNeighbors == 5
JIndex == 571
CvFolds == 3
RfEstimators == 100

(* ------------------------------ numbers ------------------------------- *)
Abs(x) == IF x < 0 THEN -x ELSE x

RECURSIVE Gcd(_, _)
Gcd(a, b) == IF b = 0 THEN a ELSE Gcd(b, a % b)

\* the rational n/d (d # 0) in lowest terms
Rat(n, d) ==
  LET g == Gcd(Abs(n), Abs(d))
      s == IF d < 0 THEN -1 ELSE 1
  IN [n |-> (s * n) \div g, d |-> (s * d) \div g, root |-> 1]

IsSquare(n) == \E i \in 0..n : i * i = n
ISqrt(n) == CHOOSE i \in 0..n : i * i = n

\* np.sqrt of a non-negative rational
NpSqrt(x) ==
  IF IsSquare(x.n) /\ IsSquare(x.d)
  THEN [n |-> ISqrt(x.n), d |-> ISqrt(x.d), root |-> 1]
  ELSE [n |-> x.n, d |-> x.d, root |-> 2]

RECURSIVE SumF(_, _)
SumF(f, S) ==
  IF S = {} THEN 0
  ELSE LET k == CHOOSE k \in S : TRUE IN f[k] + SumF(f, S \ {k})

Undef == [undef |-> TRUE]

(* ----------------------------- row kinds ------------------------------ *)
BaseRow ==
  [objid |-> 1, ra |-> 0, dec |-> 0, dered_r |-> 19, spec_z |-> 0,
   u_g_color |-> 0, g_r_color |-> 0, r_i_color |-> 0, i_z_color |-> 0,
   class |-> "QSO", diff_u |-> 0, diff_g1 |-> 0, diff_i |-> 0, diff_z |-> 0]

\* catalogue order of the kinds
KindOrder == <<"q", "qmag", "qgr", "qug", "s", "g", "gmag">>
RowKinds == {KindOrder[i] : i \in 1..Len(KindOrder)}

Row(k) ==
  CASE k = "q"    -> BaseRow
    [] k = "qmag" -> [BaseRow EXCEPT !.objid = 2, !.dered_r = BadMagnitude]
    [] k = "qgr"  -> [BaseRow EXCEPT !.objid = 3, !.dered_r = 20, !.g_r_color = ColorLimit]
    [] k = "qug"  -> [BaseRow EXCEPT !.objid = 4, !.dered_r = 21, !.u_g_color = 50, !.spec_z = 2]
    [] k = "s"    -> [BaseRow EXCEPT !.objid = 5, !.dered_r = 15, !.class = "STAR"]
    [] k = "g"    -> [BaseRow EXCEPT !.objid = 6, !.dered_r = 17, !.class = "GALAXY"]
    [] k = "gmag" -> [BaseRow EXCEPT !.objid = 7, !.dered_r = BadMagnitude, !.class = "GALAXY"]

(* ------------------------------- files -------------------------------- *)
\* the columns of a catalogue file, in the order of the query of cell 4
CsvHeader ==
  <<"objid", "ra", "dec", "dered_r", "spec_z", "u_g_color", "g_r_color",
    "r_i_color", "i_z_color", "class", "diff_u", "diff_g1", "diff_i", "diff_z">>
\* a file whose second r-band difference kept the query's own name
CsvHeaderDiffG ==
  <<"objid", "ra", "dec", "dered_r", "spec_z", "u_g_color", "g_r_color",
    "r_i_color", "i_z_color", "class", "diff_u", "diff_g", "diff_i", "diff_z">>

Run(k, n) == [k |-> k, n |-> n]
NonEmpty(runs) == SelectSeq(runs, LAMBDA r : r.n > 0)

RECURSIVE NRows(_)
NRows(runs) == IF runs = <<>> THEN 0 ELSE Head(runs).n + NRows(Tail(runs))

\* rows of kind k in a sequence of runs
RECURSIVE CountKind(_, _)
CountKind(runs, k) ==
  IF runs = <<>> THEN 0
  ELSE (IF Head(runs).k = k THEN Head(runs).n ELSE 0) + CountKind(Tail(runs), k)

BagOf(runs) == [k \in RowKinds |-> CountKind(runs, k)]
BagSize(b) == SumF(b, RowKinds)
EmptyBag == [k \in RowKinds |-> 0]

SpecialCounts == 0..MaxSpecial
QsoSizes == {0, SmallRows, MidRows, BulkRows}

\* quasar catalogues: the unusual rows first, then the ordinary ones
QsoFiles ==
  { [header |-> CsvHeader,
     runs |-> NonEmpty(<<Run("qmag", m), Run("qgr", m), Run("qug", m), Run("q", n)>>)] :
      m \in SpecialCounts, n \in QsoSizes }
  \cup { [header |-> CsvHeaderDiffG, runs |-> <<Run("q", BulkRows)>>] }

(* ------------------------------- paths -------------------------------- *)
PathQsoRegression == [dir |-> "SDSScatalog", file |-> "qso10000.csv"]
PathQsoClass == [dir |-> "SDSSCatalog", file |-> "qso10000.csv"]
PathStar == [dir |-> "SDSSCatalog", file |-> "star1000.csv"]
PathGalaxy == [dir |-> "SDSSCatalog", file |-> "galaxy1000.csv"]

DirNames == {"SDSScatalog", "SDSSCatalog"}
Lower(s) == IF s \in DirNames THEN "sdsscatalog" ELSE s

\* the data directory as it is named on disk, on a file system that tells
\* upper from lower case or on one that does not
Disks ==
  {[caseSensitive |-> TRUE, dataDir |-> d] : d \in DirNames}
    \cup {[caseSensitive |-> FALSE, dataDir |-> "SDSSCatalog"]}

(* ------------------------------ pandas -------------------------------- *)
ColumnSet(s) == {s[i] : i \in 1..Len(s)}

\* pd.read_csv(file, index_col=0, usecols=...): the named columns in the file's
\* order, the first of them as the index
ReadCsv(file, usecols) ==
  LET used == SelectSeq(file.header, LAMBDA c : c \in usecols)
  IN [index |-> Head(used), cols |-> Tail(used), runs |-> file.runs]

UsecolsOk(file, usecols) == usecols \subseteq ColumnSet(file.header)

\* df[:n]
RECURSIVE HeadRuns(_, _)
HeadRuns(runs, n) ==
  IF runs = <<>> \/ n <= 0 THEN <<>>
  ELSE IF Head(runs).n >= n THEN <<Run(Head(runs).k, n)>>
  ELSE <<Head(runs)>> \o HeadRuns(Tail(runs), n - Head(runs).n)

DfHead(df, n) == [df EXCEPT !.runs = HeadRuns(@, n)]
DfAppend(df, other) == [df EXCEPT !.runs = @ \o other.runs]

\* the boolean mask of the cleaning statements
KeepRow(k) ==
  /\ Row(k).dered_r > BadMagnitude
  /\ Row(k).g_r_color > -ColorLimit
  /\ Row(k).g_r_color < ColorLimit

Clean(df) == [df EXCEPT !.runs = SelectSeq(@, LAMBDA r : KeepRow(r.k))]

\* a del statement that deletes nothing
DelNothing(df, c) == df

DelColumn(df, c) == [df EXCEPT !.cols = SelectSeq(@, LAMBDA x : x # c)]
Column(df, c) == [cols |-> <<c>>, runs |-> df.runs]
Values(df) == [cols |-> df.cols, runs |-> df.runs, scaled |-> FALSE]

\* sklearn.preprocessing.scale(X): the same rows, every column standardised
Scale(A) == [A EXCEPT !.scaled = TRUE]

UsecolsQso ==
  {"objid", "dered_r", "spec_z", "u_g_color", "g_r_color", "r_i_color",
   "i_z_color", "diff_u", "diff_g1", "diff_i", "diff_z"}
UsecolsAll ==
  {"objid", "dered_r", "u_g_color", "g_r_color", "r_i_color", "i_z_color",
   "diff_u", "diff_g1", "diff_i", "diff_z", "class"}

(* -------------------------- train_test_split -------------------------- *)
CeilDiv(a, b) == (a + b - 1) \div b
NTest(n) == CeilDiv(n * TestSizeNum, TestSizeDen)

\* the kinds of a bag, the most numerous of them, and the others
Present(b) == {k \in RowKinds : b[k] > 0}
Largest(b) == CHOOSE k \in RowKinds : \A j \in RowKinds : b[j] <= b[k]
Others(b) == Present(b) \ {Largest(b)}
MaxOther(b) ==
  IF Others(b) = {} THEN 0
  ELSE b[CHOOSE k \in Others(b) : \A j \in Others(b) : b[j] <= b[k]]

\* the test sets a uniform shuffle can deal: every bag of nt rows within b.
\* The rows of every kind but the most numerous are chosen freely; the most
\* numerous kind fills what is left.
TestBags(b, nt) ==
  { [k \in RowKinds |-> IF k \in Others(b) THEN u[k]
                        ELSE IF k = Largest(b) THEN nt - SumF(u, Others(b)) ELSE 0] :
      u \in { v \in [Others(b) -> 0..MaxOther(b)] :
                /\ \A k \in Others(b) : v[k] <= b[k]
                /\ SumF(v, Others(b)) <= nt
                /\ nt - SumF(v, Others(b)) <= b[Largest(b)] } }

BagMinus(b, t) == [k \in RowKinds |-> b[k] - t[k]]
\* the rows bag of array A, shuffled
Part(A, bag) == [cols |-> A.cols, rows |-> bag, scaled |-> A.scaled]

(* ------------------------------ metrics ------------------------------- *)
Zs(k) == Row(k).spec_z

\* sklearn.metrics.mean_squared_error(y_true, y_pred) over the rows of a bag
MeanSquaredError(rows, pred) ==
  Rat(SumF([k \in RowKinds |-> rows[k] * (Zs(k) - pred[k]) * (Zs(k) - pred[k])], RowKinds),
      BagSize(rows))

\* ((1./len(y))*(y - y.mean())**2).sum(): with S the sum and Q the sum of
\* squares of the n values this is (n*Q - S*S)/(n*n)
MeanSquareAboutOwnMean(rows) ==
  LET n == BagSize(rows)
      S == SumF([k \in RowKinds |-> rows[k] * Zs(k)], RowKinds)
      Q == SumF([k \in RowKinds |-> rows[k] * Zs(k) * Zs(k)], RowKinds)
  IN Rat(n * Q - S * S, n * n)

\* what a fitted regressor answers for a row: its redshift plus the model's bias
PredictAll(model) == [k \in RowKinds |-> Zs(k) + model.bias]

(* ---------------------------- estimators ---------------------------- *)
\* the values of a parameter grid as they are written, the names in the
\* sorted order in which ParameterGrid walks them
KnnParamGrid ==
  <<[name |-> "n_neighbors", values |-> <<"1", "2", "4", "8", "16", "32", "64">>],
    [name |-> "p", values |-> <<"1", "2">>],
    [name |-> "weights", values |-> <<"uniform", "distance">>]>>

MaxNeighbors == 64

\* sklearn's ParameterGrid: every combination, the last name varying fastest
RECURSIVE ParameterGrid(_)
ParameterGrid(grid) ==
  IF grid = <<>> THEN << <<>> >>
  ELSE LET h == Head(grid)
           rest == ParameterGrid(Tail(grid))
           m == Len(rest)
       IN [i \in 1..(Len(h.values) * m) |->
             <<[name |-> h.name, value |-> h.values[((i - 1) \div m) + 1]]>>
               \o rest[((i - 1) % m) + 1]]

\* What the library measures on the data is not computed here: it is read
\* from an oracle [a, b] fixed for the session, one of a family of
\* ScoreShapes + 1.  FoldScores is the score, one of ScoreLevels levels, of
\* candidate c on fold f.
ScoreLevels == 5
ScoreShapes == 1
Oracles == {[a |-> a, b |-> (a + 1) % (ScoreShapes + 1)] : a \in 0..ScoreShapes}
FoldScores(a, b, nc, nf) ==
  [c \in 1..nc |-> [f \in 1..nf |-> (a * c + b * f + c * f) % ScoreLevels]]
\* the bias a regressor of the given parameters learns
LearnedBias(o, params) == 2 * ((o.a + Len(params)) % 2)

RECURSIVE SumSeq(_)
SumSeq(q) == IF q = <<>> THEN 0 ELSE Head(q) + SumSeq(Tail(q))

\* np.mean of a sequence of integers
Mean(q) == Rat(SumSeq(q), Len(q))
RatLess(a, b) == a.n * b.d < b.n * a.d

\* the sizes of the test folds of KFold(nf) on n rows
KFoldSizes(n, nf) == [f \in 1..nf |-> (n \div nf) + (IF f <= n % nf THEN 1 ELSE 0)]
\* rows left to train on when the largest fold is held out
TrainFoldRows(n, nf) == n - CeilDiv(n, nf)

\* GridSearchCV(estimator, param_grid, cv)
GridSearchCV(estimator, grid, cv) ==
  [kind |-> "GridSearchCV", estimator |-> estimator, param_grid |-> grid,
   cv |-> cv, fitted |-> FALSE]

\* a search that keeps its first candidate whatever the scores
FirstIndex(means) == 1

\* the mean of the fold scores q, each weighted by the rows w of its test fold
\* (GridSearchCV's iid averaging, the default of the library versions that
\* run under the notebook's Python 2 kernel)
WeightedMean(q, w) ==
  Rat(SumSeq([f \in 1..Len(q) |-> q[f] * w[f]]), SumSeq(w))

\* rows of class c in a bag
ClassCount(b, c) ==
  SumF([k \in RowKinds |-> IF Row(k).class = c THEN b[k] ELSE 0], RowKinds)
Classes == {Row(k).class : k \in RowKinds}

\* the sizes of the test folds of StratifiedKFold(nf) on labels b: every
\* class is dealt over the folds as KFold deals it
StratifiedFoldSizes(b, nf) ==
  [f \in 1..nf |->
     SumF([c \in Classes |-> KFoldSizes(ClassCount(b, c), nf)[f]], Classes)]

\* the first candidate of the highest mean test score
BestIndex(means) ==
  CHOOSE i \in 1..Len(means) :
    /\ \A j \in 1..Len(means) : ~RatLess(means[i], means[j])
    /\ \A j \in 1..(i - 1) : RatLess(means[j], means[i])

\* GridSearchCV.fit(Xtr, ytr) given the scores of every candidate on every
\* fold; best names the object the refitted best estimator is
GridSearchFit(search, Xtr, ytr, sizes, scores, best) ==
  LET cands == ParameterGrid(search.param_grid)
      means == [c \in 1..Len(cands) |-> WeightedMean(scores[c], sizes)]
      bi == BestIndex(means)
  IN [kind |-> "GridSearchCV", estimator |-> search.estimator,
      param_grid |-> search.param_grid, cv |-> search.cv, fitted |-> TRUE,
      X |-> Xtr, y |-> ytr, test_fold_sizes |-> sizes,
      candidates |-> cands, fold_scores |-> scores,
      mean_test_score |-> means, best_index_ |-> bi,
      best_params_ |-> cands[bi], best_score_ |-> means[bi],
      best_estimator_ |-> best]

\* library default of cv where the call names none
DefaultCv == 3

ObjIds == {"linear", "knn", "knn_search", "knn_best", "rf", "rf_search", "rf_best"}
Unbound == "unbound"

VARIABLES
  pc, err, stdout, heap, calls, oracle,
  caseSensitive, dataDir, qsoFile,
  qsos, qso_redshifts, qso_features, X, y,
  X_train, X_test, y_train, y_test,
  linear, y_lr_pred, mse_linear,
  X_scaled, KNN, y_knn_pred, mse_knn,
  training_scores, validation_scores, KNN_tuned, R2, meanR2,
  KNNz, zspec, zphoto,
  all_sources, all_labels, all_features,
  rf, rf_tuned, RFselector, BestRFselector, y_pred, y_prob,
  figure, y_knn_tuned_pred, mse_knn_tuned

disk == <<caseSensitive, dataDir, qsoFile, oracle>>
qsoVars == <<qsos, qso_redshifts, qso_features>>
xyVars == <<X, y>>
splitVars == <<X_train, X_test, y_train, y_test>>
linVars == <<linear, y_lr_pred, mse_linear>>
knnVars == <<X_scaled, KNN, y_knn_pred, mse_knn>>
tuneVars == <<training_scores, validation_scores, KNN_tuned, R2, meanR2>>
zVars == <<KNNz, zspec, zphoto>>
tunedVars == <<y_knn_tuned_pred, mse_knn_tuned>>
regression == <<qsoVars, linVars, knnVars, tuneVars, zVars, figure, tunedVars>>
srcVars == <<all_sources, all_labels, all_features>>
rfVars == <<rf, rf_tuned, RFselector, BestRFselector, y_pred, y_prob>>

\* everything but the run's position and its error
namespace ==
  <<stdout, heap, calls, disk, qsoVars, xyVars, splitVars, linVars, knnVars, tuneVars, zVars,
    srcVars, rfVars, figure, tunedVars>>

vars == <<pc, err, namespace>>

\* open(path): the directory name must match the one on disk
Exists(path) ==
  IF caseSensitive THEN path.dir = dataDir ELSE Lower(path.dir) = Lower(dataDir)

Init ==
  /\ pc = "7"
  /\ err = "none"
  /\ stdout = <<>>
  /\ heap = [o \in ObjIds |-> Undef]
  /\ calls = <<>>
  /\ \E d \in Disks : caseSensitive = d.caseSensitive /\ dataDir = d.dataDir
  /\ oracle \in Oracles
  /\ qsoFile \in QsoFiles
  /\ qsos = Undef /\ qso_redshifts = Undef /\ qso_features = Undef
  /\ X = Undef /\ y = Undef
  /\ X_train = Undef /\ X_test = Undef /\ y_train = Undef /\ y_test = Undef
  /\ linear = Unbound /\ y_lr_pred = Undef /\ mse_linear = Undef
  /\ X_scaled = Undef /\ KNN = Unbound /\ y_knn_pred = Undef /\ mse_knn = Undef
  /\ figure = Undef /\ y_knn_tuned_pred = Undef /\ mse_knn_tuned = Undef
  /\ training_scores = Undef /\ validation_scores = Undef
  /\ KNN_tuned = Unbound /\ R2 = Undef /\ meanR2 = Undef
  /\ KNNz = Unbound /\ zspec = Undef /\ zphoto = Undef
  /\ all_sources = Undef /\ all_labels = Undef /\ all_features = Undef
  /\ rf = Unbound /\ rf_tuned = Unbound /\ RFselector = Unbound
  /\ BestRFselector = Unbound /\ y_pred = Undef /\ y_prob = Undef

\* an exception leaves the namespace as it is and ends the run
Raise(e) == /\ err' = e /\ pc' = pc /\ UNCHANGED namespace

\* a kernel that runs a cell again after it has failed
RunningAgain(at) == pc = at

Running(at) == pc = at /\ err = "none"

Emit(out, label, value) == Append(out, [label |-> label, value |-> value])

\* the library calls made so far, in order: the cell, the function, its table
Call(cell, fn, arg) == [cell |-> cell, fn |-> fn, arg |-> arg]

(* ------------------------ regression: cells 7-18 ---------------------- *)
\* cell 7: read the quasar catalogue, clean it, separate target and features
Cell7 ==
  /\ Running("7")
  /\ IF ~Exists(PathQsoRegression) THEN Raise("FileNotFoundError")
     ELSE IF ~UsecolsOk(qsoFile, UsecolsQso) THEN Raise("ValueError")
     ELSE LET cleaned == Clean(ReadCsv(qsoFile, UsecolsQso))
          IN /\ qsos' = cleaned
             /\ qso_redshifts' = Column(cleaned, "spec_z")
             /\ qso_features' = DelColumn(cleaned, "spec_z")
             /\ calls' = calls \o <<Call("7", "read_csv", "qsos"), Call("7", "clean", "qsos")>>
             /\ pc' = "10"
             /\ UNCHANGED <<err, stdout, heap, disk, xyVars, splitVars, linVars,
                            knnVars, tuneVars, zVars, srcVars, rfVars, figure, tunedVars>>

\* cell 10: min(qso_redshifts.values) for the colour scale
Cell10 ==
  /\ Running("10")
  /\ IF NRows(qso_redshifts.runs) = 0 THEN Raise("ValueError")
     ELSE /\ pc' = "12"
          /\ UNCHANGED <<err, namespace>>

\* cell 12: the design matrix and the response vector
Cell12 ==
  /\ Running("12")
  /\ X' = Values(qso_features)
  /\ y' = Values(qso_redshifts)
  /\ pc' = "15"
  /\ UNCHANGED <<err, stdout, heap, calls, disk, qsoVars, splitVars, linVars,
                 knnVars, tuneVars, zVars, srcVars, rfVars, figure, tunedVars>>

\* train_test_split refuses a table it cannot cut into two non-empty parts
SplitFails(n) == n = 0 \/ n - NTest(n) = 0

\* a regressor fitted on (Xtr, ytr)
Fitted(kind, params, Xtr, ytr) ==
  [kind |-> kind, params |-> params, X |-> Xtr, y |-> ytr,
   bias |-> LearnedBias(oracle, params)]

Predict(model, Xte) == [rows |-> Xte.rows, pred |-> PredictAll(model)]

\* cell 15: split, fit the linear model, predict, score
Cell15 ==
  /\ Running("15")
  /\ LET b == BagOf(X.runs)
         n == BagSize(b)
     IN IF SplitFails(n) THEN Raise("ValueError")
        ELSE \E t \in TestBags(b, NTest(n)) :
               LET Xtr == Part(X, BagMinus(b, t))
                   Xte == Part(X, t)
                   ytr == Part(y, BagMinus(b, t))
                   yte == Part(y, t)
                   model == Fitted("LinearRegression", <<>>, Xtr, ytr)
                   pred == Predict(model, Xte)
                   mse == NpSqrt(MeanSquaredError(yte.rows, pred.pred))
               IN /\ X_train' = Xtr /\ X_test' = Xte
                  /\ y_train' = ytr /\ y_test' = yte
                  /\ linear' = "linear"
                  /\ heap' = [heap EXCEPT !["linear"] = model]
                  /\ y_lr_pred' = pred
                  /\ mse_linear' = mse
                  /\ stdout' = Emit(stdout, "Linear regression: MSE = ", mse)
                  /\ calls' = calls \o <<Call("15", "train_test_split", "X"),
                                          Call("15", "fit", "X_train"),
                                          Call("15", "predict", "X_test"),
                                          Call("15", "score", "X_test")>>
                  /\ pc' = "18"
                  /\ UNCHANGED <<err, disk, qsoVars, xyVars, knnVars, tuneVars, zVars, srcVars, rfVars, figure, tunedVars>>

\* cell 18: the baseline printed beside the linear model's error
Cell18 ==
  /\ Running("18")
  /\ stdout' = Emit(Emit(stdout, "Naive MSE", MeanSquareAboutOwnMean(y_train.rows)),
                    "Linear regression: MSE = ", mse_linear)
  /\ pc' = "20"
  /\ UNCHANGED <<err, heap, calls, disk, qsoVars, xyVars, splitVars, linVars,
                 knnVars, tuneVars, zVars, srcVars, rfVars, figure, tunedVars>>

(* ------------------------ regression: cells 20-44 --------------------- *)
KnnParams(n) == <<[name |-> "n_neighbors", value |-> n]>>

\* neighbors.KNeighborsRegressor(n), not yet fitted
KNeighborsRegressor(n) ==
  [kind |-> "KNeighborsRegressor", params |-> KnnParams(n), fitted |-> FALSE]

\* estimator.fit(Xtr, ytr) of a neighbour regressor, in place
KnnFit(obj, Xtr, ytr) == Fitted(obj.kind, obj.params, Xtr, ytr)

\* cell 20, first statements: X_scaled and the regressor KNeighborsRegressor(5)
Cell20a ==
  /\ Running("20")
  /\ IF NRows(X.runs) = 0 THEN Raise("ValueError")
     ELSE /\ X_scaled' = Scale(X)
          /\ KNN' = "knn"
          /\ heap' = [heap EXCEPT !["knn"] = KNeighborsRegressor(KNeighbors)]
          /\ pc' = "20b"
          /\ UNCHANGED <<err, stdout, calls, disk, qsoVars, xyVars, splitVars, linVars,
                         y_knn_pred, mse_knn, tuneVars, zVars, srcVars, rfVars, figure, tunedVars>>

\* cell 20, last statements: split X_scaled, fit KNN on the training part
Cell20b ==
  /\ Running("20b")
  /\ LET b == BagOf(X_scaled.runs)
         n == BagSize(b)
     IN IF SplitFails(n) THEN Raise("ValueError")
        ELSE \E t \in TestBags(b, NTest(n)) :
               LET Xtr == Part(X_scaled, BagMinus(b, t))
                   ytr == Part(y, BagMinus(b, t))
               IN /\ X_train' = Xtr /\ X_test' = Part(X_scaled, t)
                  /\ y_train' = ytr /\ y_test' = Part(y, t)
                  /\ heap' = [heap EXCEPT !["knn"] = KnnFit(@, Xtr, ytr)]
                  /\ calls' = calls \o <<Call("20", "train_test_split", "X_scaled"),
                                          Call("20", "fit", "X_train")>>
                  /\ pc' = "21"
                  /\ UNCHANGED <<err, stdout, disk, qsoVars, xyVars, linVars, knnVars,
                                 tuneVars, zVars, srcVars, rfVars, figure, tunedVars>>

\* cell 21: KNN.predict needs n_neighbors training rows
Cell21 ==
  /\ Running("21")
  /\ IF BagSize(X_train.rows) < KNeighbors THEN Raise("ValueError")
     ELSE LET pred == Predict(heap[KNN], X_test)
              mse == MeanSquaredError(y_test.rows, pred.pred)
          IN /\ y_knn_pred' = pred
             /\ mse_knn' = mse
             /\ stdout' = Emit(Emit(stdout, "MSE (KNN) =", mse),
                               "MSE (linear regression) = ", mse_linear)
             /\ calls' = calls \o <<Call("21", "predict", "X_test"),
                                     Call("21", "score", "X_test")>>
             /\ pc' = "24"
             /\ UNCHANGED <<err, heap, disk, qsoVars, xyVars, splitVars, linVars,
                            X_scaled, KNN, tuneVars, zVars, srcVars, rfVars, figure, tunedVars>>

ParamRange == <<1, 2, 4, 8, 16, 32, 64>>

\* the score arrays validation_curve returns: one row per parameter value,
\* one column per fold
ValidationCurve(o, nc, nf) ==
  [train |-> FoldScores(o.b, o.a, nc, nf), test |-> FoldScores(o.a, o.b, nc, nf)]

\* cell 24: validation_curve(KNN, X_scaled, y, cv=3) over param_range
Cell24 ==
  /\ Running("24")
  /\ IF TrainFoldRows(NRows(X_scaled.runs), CvFolds) < MaxNeighbors
     THEN Raise("ValueError")
     ELSE LET vc == ValidationCurve(oracle, Len(ParamRange), CvFolds)
          IN
            /\ training_scores' = vc.train
            /\ validation_scores' = vc.test
            /\ calls' = Append(calls, Call("24", "validation_curve", "X_scaled"))
            /\ pc' = "26"
            /\ UNCHANGED <<err, stdout, heap, disk, qsoVars, xyVars, splitVars,
                           linVars, knnVars, KNN_tuned, R2, meanR2, zVars, srcVars, rfVars, figure, tunedVars>>

RatAdd(a, b) == Rat(a.n * b.d + b.n * a.d, a.d * b.d)
RatNeg(a) == Rat(-a.n, a.d)
Tenth == Rat(1, 10)

\* the least and the greatest of a sequence of rationals
RatMin(q) == q[CHOOSE i \in 1..Len(q) : \A j \in 1..Len(q) : ~RatLess(q[j], q[i])]
RatMax(q) == q[CHOOSE i \in 1..Len(q) : \A j \in 1..Len(q) : ~RatLess(q[i], q[j])]

\* np.std of a sequence of integers: the root of the mean squared deviation
\* from the mean m = n/d, sum((d*x - n)^2) / (len * d^2)
NpStd(q) ==
  LET m == Mean(q)
  IN NpSqrt(Rat(SumSeq([i \in 1..Len(q) |-> (m.d * q[i] - m.n) * (m.d * q[i] - m.n)]),
                Len(q) * m.d * m.d))

\* a mean shifted down (sign -1) or up (sign 1) by a standard deviation
Shifted(m, sign, s) == [mid |-> m, sign |-> sign, by |-> s]

\* a mean over the parameter values (axis=0) in place of the folds
MeanAxis0(scores) ==
  [f \in 1..Len(scores[1]) |-> Mean([c \in 1..Len(scores) |-> scores[c][f]])]

\* np.mean(scores, axis=1) and np.std(scores, axis=1): one value per row
MeanAxis1(scores) == [c \in 1..Len(scores) |-> Mean(scores[c])]
StdAxis1(scores) == [c \in 1..Len(scores) |-> NpStd(scores[c])]

\* cell 25: what plot_validation_curve draws on the current figure
plot_validation_curve(name, values, training, validation) ==
  LET training_scores_mean == MeanAxis1(training)
      training_scores_std == StdAxis1(training)
      validation_scores_mean == MeanAxis1(validation)
      validation_scores_std == StdAxis1(validation)
      Band(mean, std) ==
        [c \in 1..Len(mean) |-> [lo |-> Shifted(mean[c], -1, std[c]),
                                 hi |-> Shifted(mean[c], 1, std[c])]]
  IN [fills |-> <<[x |-> values, band |-> Band(training_scores_mean, training_scores_std),
                   color |-> "r"],
                  [x |-> values, band |-> Band(validation_scores_mean, validation_scores_std),
                   color |-> "g"]>>,
      lines |-> <<[x |-> values, y |-> training_scores_mean, color |-> "r",
                   label |-> "Training R2 score"],
                  [x |-> values, y |-> validation_scores_mean, color |-> "g",
                   label |-> "Cross-validation R2 score"]>>,
      ylim |-> [lo |-> RatAdd(RatMin(validation_scores_mean), RatNeg(Tenth)),
                hi |-> RatAdd(RatMax(training_scores_mean), Tenth)],
      xlabel |-> name]

\* cell 26: the validation curve of cell 24, plotted
Cell26 ==
  /\ Running("26")
  /\ figure' = plot_validation_curve("n_neighbors", ParamRange,
                                     training_scores, validation_scores)
  /\ pc' = "30"
  /\ UNCHANGED <<err, stdout, heap, calls, disk, qsoVars, xyVars, splitVars,
                 linVars, knnVars, tuneVars, zVars, srcVars, rfVars, tunedVars>>

\* cell 30: KNN_tuned = GridSearchCV(KNN, param_grid)
Cell30 ==
  /\ Running("30")
  /\ KNN_tuned' = "knn_search"
  /\ heap' = [heap EXCEPT !["knn_search"] = GridSearchCV(KNN, KnnParamGrid, DefaultCv)]
  /\ pc' = "32"
  /\ UNCHANGED <<err, stdout, calls, disk, qsoVars, xyVars, splitVars, linVars,
                 knnVars, training_scores, validation_scores, R2, meanR2, zVars, srcVars, rfVars, figure, tunedVars>>

\* cell 32: KNN_tuned.fit(X_train, y_train): search, then refit the best
\* candidate on all of (X_train, y_train) as a new estimator
Cell32 ==
  /\ Running("32")
  /\ LET search == heap[KNN_tuned]
         nc == Len(ParameterGrid(search.param_grid))
     IN IF TrainFoldRows(BagSize(X_train.rows), search.cv) < MaxNeighbors
        THEN Raise("ValueError")
        ELSE LET scores == FoldScores(oracle.a, oracle.b, nc, search.cv)
                 done == GridSearchFit(search, X_train, y_train,
                                       KFoldSizes(BagSize(X_train.rows), search.cv),
                                       scores, "knn_best")
               IN /\ heap' = [heap EXCEPT
                       ![KNN_tuned] = done,
                       !["knn_best"] = Fitted("KNeighborsRegressor", done.best_params_,
                                              X_train, y_train)]
                  /\ calls' = Append(calls, Call("32", "grid_search", "X_train"))
                  /\ pc' = "33"
                  /\ UNCHANGED <<err, stdout, disk, qsoVars, xyVars, splitVars,
                                 linVars, knnVars, tuneVars, zVars, srcVars, rfVars, figure, tunedVars>>

\* GridSearchCV.predict: the answer of the search's best estimator
KnnSearchPredict(search, Xte) == Predict(heap[search.best_estimator_], Xte)

\* cell 33: the tuned search's error on the test set, beside the plain KNN's
Cell33 ==
  /\ Running("33")
  /\ LET pred == KnnSearchPredict(heap[KNN_tuned], X_test)
         mse == MeanSquaredError(y_test.rows, pred.pred)
     IN /\ y_knn_tuned_pred' = pred
        /\ mse_knn_tuned' = mse
        /\ stdout' = Emit(Emit(stdout, "MSE (tuned KNN) =", mse), "MSE (KNN) = ", mse_knn)
        /\ calls' = calls \o <<Call("33", "predict", "X_test"),
                                Call("33", "score", "X_test")>>
        /\ pc' = "38"
        /\ UNCHANGED <<err, heap, disk, qsoVars, xyVars, splitVars, linVars, knnVars,
                       tuneVars, zVars, srcVars, rfVars, figure>>

\* cell 38: cross_val_score(KNN_tuned, X_scaled, y, cv=3): a grid search inside
\* each of three outer folds, on clones of KNN_tuned
Cell38 ==
  /\ Running("38")
  /\ LET outer == TrainFoldRows(NRows(X_scaled.runs), CvFolds)
     IN IF TrainFoldRows(outer, heap[KNN_tuned].cv) < MaxNeighbors
        THEN Raise("ValueError")
        ELSE   /\ R2' = FoldScores(oracle.a, oracle.b, 1, CvFolds)[1]
               /\ calls' = Append(calls, Call("38", "cross_val_score", "X_scaled"))
               /\ pc' = "39"
               /\ UNCHANGED <<err, stdout, heap, disk, qsoVars, xyVars, splitVars,
                              linVars, knnVars, training_scores, validation_scores,
                              KNN_tuned, meanR2, zVars, srcVars, rfVars, figure, tunedVars>>

\* cell 39: the mean of the outer scores
Cell39 ==
  /\ Running("39")
  /\ meanR2' = Mean(R2)
  /\ stdout' = Emit(stdout, "Mean score:", Mean(R2))
  /\ pc' = "42"
  /\ UNCHANGED <<err, heap, calls, disk, qsoVars, xyVars, splitVars, linVars,
                 knnVars, training_scores, validation_scores, KNN_tuned, R2, zVars, srcVars, rfVars, figure, tunedVars>>

\* cell 42: KNNz names the search's own best estimator, and fits it
Cell42 ==
  /\ Running("42")
  /\ LET ref == heap[KNN_tuned].best_estimator_
     IN   /\ KNNz' = ref
          /\ heap' = [heap EXCEPT ![ref] = KnnFit(@, X_train, y_train)]
          /\ calls' = Append(calls, Call("42", "fit", "X_train"))
          /\ pc' = "43"
          /\ UNCHANGED <<err, stdout, disk, qsoVars, xyVars, splitVars, linVars,
                         knnVars, tuneVars, zspec, zphoto, srcVars, rfVars, figure, tunedVars>>

\* cell 43: row j = 571 of the test set, whichever row the shuffle put there
Cell43 ==
  /\ Running("43")
  /\ IF JIndex >= BagSize(X_test.rows) THEN Raise("IndexError")
     ELSE \E k \in {r \in RowKinds : X_test.rows[r] > 0} :
            /\ zphoto' = [value |-> PredictAll(heap[KNNz])[k]]
            /\ zspec' = [value |-> Zs(k)]
            /\ calls' = Append(calls, Call("43", "predict", "X_test"))
            /\ pc' = "44"
            /\ UNCHANGED <<err, stdout, heap, disk, qsoVars, xyVars, splitVars,
                           linVars, knnVars, tuneVars, KNNz, srcVars, rfVars, figure, tunedVars>>

\* cell 44: photometric against spectroscopic redshift for the whole test set
Cell44 ==
  /\ Running("44")
  /\ zspec' = y_test
  /\ zphoto' = Predict(heap[KNNz], X_test)
  /\ calls' = Append(calls, Call("44", "predict", "X_test"))
  /\ pc' = "51a"
  /\ UNCHANGED <<err, stdout, heap, disk, qsoVars, xyVars, splitVars,
                 linVars, knnVars, tuneVars, KNNz, srcVars, rfVars, figure, tunedVars>>

(* ---------------------- classification: cells 51-75 ------------------- *)
\* rows of the star file and of the galaxy file
FileRows == 1

StarFiles == { [header |-> CsvHeader, runs |-> <<Run("s", FileRows)>>] }
GalaxyFiles ==
  { [header |-> CsvHeader, runs |-> NonEmpty(<<Run("gmag", m), Run("g", FileRows)>>)] :
      m \in SpecialCounts }
NoFile == [absent |-> TRUE]

\* cell 51, first statement: the first 1000 rows of the quasar catalogue
Cell51a ==
  /\ Running("51a")
  /\ IF ~Exists(PathQsoClass) THEN Raise("FileNotFoundError")
     ELSE IF ~UsecolsOk(qsoFile, UsecolsAll) THEN Raise("ValueError")
     ELSE /\ all_sources' = DfHead(ReadCsv(qsoFile, UsecolsAll), HeadRows)
          /\ calls' = Append(calls, Call("51a", "read_csv", "all_sources"))
          /\ pc' = "51b"
          /\ UNCHANGED <<err, stdout, heap, disk, regression, xyVars, splitVars,
                         all_labels, all_features, rfVars>>

\* cell 51, second statement: append the star catalogue, whatever it holds
Cell51b ==
  /\ Running("51b")
  /\ \E f \in StarFiles \cup {NoFile} :
       IF f = NoFile \/ ~Exists(PathStar) THEN Raise("FileNotFoundError")
       ELSE /\ all_sources' = DfAppend(all_sources, ReadCsv(f, UsecolsAll))
            /\ calls' = Append(calls, Call("51b", "read_csv", "all_sources"))
            /\ pc' = "51c"
            /\ UNCHANGED <<err, stdout, heap, disk, regression, xyVars, splitVars,
                           all_labels, all_features, rfVars>>

\* cell 51, third statement: append the galaxy catalogue
Cell51c ==
  /\ Running("51c")
  /\ \E f \in GalaxyFiles \cup {NoFile} :
       IF f = NoFile \/ ~Exists(PathGalaxy) THEN Raise("FileNotFoundError")
       ELSE /\ all_sources' = DfAppend(all_sources, ReadCsv(f, UsecolsAll))
            /\ calls' = Append(calls, Call("51c", "read_csv", "all_sources"))
            /\ pc' = "51d"
            /\ UNCHANGED <<err, stdout, heap, disk, regression, xyVars, splitVars,
                           all_labels, all_features, rfVars>>

\* cell 51 with its cleaning statement deleted
Cell51dUnfiltered ==
  /\ Running("51d")
  /\ pc' = "51e"
  /\ UNCHANGED <<err, namespace>>

\* cell 51, fourth statement: the cleaning mask
Cell51d ==
  /\ Running("51d")
  /\ all_sources' = Clean(all_sources)
  /\ calls' = Append(calls, Call("51d", "clean", "all_sources"))
  /\ pc' = "51e"
  /\ UNCHANGED <<err, stdout, heap, disk, regression, xyVars, splitVars,
                 all_labels, all_features, rfVars>>

\* cell 51, the rest: labels, features, and copies of their values
Cell51e ==
  /\ Running("51e")
  /\ all_labels' = Column(all_sources, "class")
  /\ all_features' = DelColumn(all_sources, "class")
  /\ X' = Values(DelColumn(all_sources, "class"))
  /\ y' = Values(Column(all_sources, "class"))
  /\ pc' = "58"
  /\ UNCHANGED <<err, stdout, heap, calls, disk, regression, splitVars,
                 all_sources, rfVars>>

RfParams(n) ==
  <<[name |-> "n_estimators", value |-> n], [name |-> "oob_score", value |-> TRUE]>>

RandomForestClassifier(params) ==
  [kind |-> "RandomForestClassifier", params |-> params, fitted |-> FALSE]

\* the out-of-bag accuracy of the forest grown from a random state
OobScore(seed) == Rat((seed + 2) % ScoreLevels, 1)

\* forest.fit(Xtr, ytr), in place: the trees are grown afresh from a new
\* random state
ForestFit(obj, Xtr, ytr, seed) ==
  [kind |-> obj.kind, params |-> obj.params, fitted |-> TRUE,
   X |-> Xtr, y |-> ytr, seed |-> seed, oob_score_ |-> OobScore(seed)]

Seeds == 1..NumSeeds

\* cell 58: a forest of 100 trees fitted on all of (X, y)
Cell58 ==
  /\ Running("58")
  /\ \E seed \in Seeds :
       /\ rf' = "rf"
       /\ heap' = [heap EXCEPT !["rf"] =
            ForestFit(RandomForestClassifier(RfParams(RfEstimators)), X, y, seed)]
       /\ calls' = Append(calls, Call("58", "fit", "X"))
       /\ pc' = "65"
       /\ UNCHANGED <<err, stdout, disk, regression, xyVars, splitVars, srcVars,
                      rf_tuned, RFselector, BestRFselector, y_pred, y_prob>>

\* cell 65: the grid (names in ParameterGrid's order)
RfParamGrid ==
  <<[name |-> "criterion", values |-> <<"gini", "entropy">>],
    [name |-> "max_features", values |-> <<"auto", "3">>],
    [name |-> "min_samples_leaf", values |-> <<"1", "2">>],
    [name |-> "n_estimators", values |-> <<"50", "100", "200">>]>>

\* cell 65: the training/test split of the classification table
Cell65 ==
  /\ Running("65")
  /\ LET b == BagOf(X.runs)
         n == BagSize(b)
     IN IF SplitFails(n) THEN Raise("ValueError")
        ELSE \E t \in TestBags(b, NTest(n)) :
               /\ X_train' = Part(X, BagMinus(b, t)) /\ X_test' = Part(X, t)
               /\ y_train' = Part(y, BagMinus(b, t)) /\ y_test' = Part(y, t)
               /\ calls' = Append(calls, Call("65", "train_test_split", "X"))
               /\ pc' = "66"
               /\ UNCHANGED <<err, stdout, heap, disk, regression, xyVars,
                              srcVars, rfVars>>

\* cell 66: grid search over a clone of rf, refit of the best candidate as a
\* new forest, and the two prints
Cell66 ==
  /\ Running("66")
  /\ \E seed \in Seeds :
       LET search == GridSearchCV(rf, RfParamGrid, CvFolds)
           nc == Len(ParameterGrid(search.param_grid))
           scores == FoldScores(oracle.a, oracle.b, nc, search.cv)
           done == GridSearchFit(search, X_train, y_train,
                                 StratifiedFoldSizes(y_train.rows, search.cv),
                                 scores, "rf_best")
           best == ForestFit(
                     RandomForestClassifier(done.best_params_ \o <<heap[rf].params[2]>>),
                     X_train, y_train, seed)
       IN /\ rf_tuned' = "rf_search"
          /\ RFselector' = "rf_search"
          /\ heap' = [heap EXCEPT !["rf_search"] = done, !["rf_best"] = best]
          /\ stdout' = Emit(Emit(stdout, "Best OOB score:", done.best_score_),
                            "", best.params)
          /\ calls' = Append(calls, Call("66", "grid_search", "X_train"))
          /\ pc' = "69"
          /\ UNCHANGED <<err, disk, regression, xyVars, splitVars, srcVars,
                         rf, BestRFselector, y_pred, y_prob>>

\* what a search answers with: its best estimator's answer
ForestOf(obj) == [params |-> obj.params, X |-> obj.X, y |-> obj.y, seed |-> obj.seed]
SearchPredict(search, Xte) ==
  [X |-> Xte, forest |-> ForestOf(heap[search.best_estimator_])]

\* cell 69: the predictions the confusion matrix is made of
Cell69 ==
  /\ Running("69")
  /\ y_pred' = SearchPredict(heap[RFselector], X_test)
  /\ calls' = Append(calls, Call("69", "predict", "X_test"))
  /\ pc' = "75"
  /\ UNCHANGED <<err, stdout, heap, disk, regression, xyVars, splitVars, srcVars,
                 rf, rf_tuned, RFselector, BestRFselector, y_prob>>

\* cell 75: BestRFselector names the search's own best estimator, and fits it
Cell75 ==
  /\ Running("75")
  /\ \E seed \in Seeds :
       LET ref == heap[RFselector].best_estimator_
           refit == ForestFit(heap[ref], X_train, y_train, seed)
       IN /\ BestRFselector' = ref
          /\ heap' = [heap EXCEPT ![ref] = refit]
          /\ y_prob' = [X |-> X_test, forest |-> ForestOf(refit)]
          /\ calls' = calls \o <<Call("75", "fit", "X_train"),
                                  Call("75", "predict", "X_test")>>
          /\ pc' = "done"
          /\ UNCHANGED <<err, stdout, disk, regression, xyVars, splitVars, srcVars,
                         rf, rf_tuned, RFselector, y_pred>>

Next ==
  \/ Cell7
  \/ Cell10
  \/ Cell12
  \/ Cell15
  \/ Cell18
  \/ Cell20a
  \/ Cell20b
  \/ Cell21
  \/ Cell24
  \/ Cell26
  \/ Cell30
  \/ Cell32
  \/ Cell33
  \/ Cell38
  \/ Cell39
  \/ Cell42
  \/ Cell43
  \/ Cell44
  \/ Cell51a
  \/ Cell51b
  \/ Cell51c
  \/ Cell51d
  \/ Cell51e
  \/ Cell58
  \/ Cell65
  \/ Cell66
  \/ Cell69
  \/ Cell75

Spec == Init /\ [][Next]_vars

(* ------------------------------ claims -------------------------------- *)
ColourColumns == {"u_g_color", "g_r_color", "r_i_color", "i_z_color"}

\* a row the cleaning step is said to discard
Extreme(r) ==
  \/ r.dered_r = BadMagnitude
  \/ \E c \in ColourColumns : r[c] <= -ColorLimit \/ r[c] >= ColorLimit

Retains(df, k) == \E i \in 1..Len(df.runs) : df.runs[i].k = k /\ df.runs[i].n > 0

QsosCleaned == qsos # Undef
AllSourcesCleaned == all_sources # Undef /\ pc \notin {"51b", "51c", "51d"}

\* C1: after the cleaning step of either table, no retained row has dered_r
\* equal to -9999 or any of its four colours outside the open range (-10, 10).
C1_NoExtremeRowRetained ==
  /\ QsosCleaned => \A k \in RowKinds : Retains(qsos, k) => ~Extreme(Row(k))
  /\ AllSourcesCleaned =>
       \A k \in RowKinds : Retains(all_sources, k) => ~Extreme(Row(k))

RegressionCells == {"7", "15", "20", "21", "24", "32", "33", "38", "42", "44"}
Section(cell) == IF cell \in RegressionCells THEN "regression" ELSE "classification"
ConsumeCalls == {"fit", "validation_curve", "grid_search", "cross_val_score", "score"}

\* call i is preceded, in its own analysis run, by a call fn
Preceded(i, fn) ==
  \E j \in 1..(i - 1) :
    calls[j].fn = fn /\ Section(calls[j].cell) = Section(calls[i].cell)

\* call i is preceded, in its own analysis run, by a filter and then a split
FilteredThenSplit(i) ==
  \E j \in 1..(i - 1) : \E k \in (j + 1)..(i - 1) :
    /\ calls[j].fn = "clean" /\ calls[k].fn = "train_test_split"
    /\ Section(calls[j].cell) = Section(calls[i].cell)
    /\ Section(calls[k].cell) = Section(calls[i].cell)

IsForestOnWholeTable(i) ==
  calls[i].cell = "58" /\ calls[i].fn = "fit" /\ calls[i].arg = "X"

\* C2 as stated: no estimator is fitted, cross-validated or scored before the
\* table of its analysis run has been filtered and then split.
C2_ConsumeAfterSplit ==
  \A i \in 1..Len(calls) : calls[i].fn \in ConsumeCalls => FilteredThenSplit(i)

\* C2, amended: every fit, cross-validation and scoring call comes after its
\* run's table was loaded and filtered, and after the split too with the one
\* exception of cell 58, which fits the first forest on the whole filtered
\* table (X, y) before cell 65 splits it.
C2_ConsumeAfterFilter ==
  \A i \in 1..Len(calls) :
    calls[i].fn \in ConsumeCalls =>
      /\ Preceded(i, "read_csv") /\ Preceded(i, "clean")
      /\ FilteredThenSplit(i) \/ IsForestOnWholeTable(i)
      /\ IsForestOnWholeTable(i) => ~Preceded(i, "train_test_split")

C2_Witness ==
  /\ pc = "done"
  /\ \E i \in 1..Len(calls) : IsForestOnWholeTable(i)
  /\ \E i \in 1..Len(calls) : calls[i].cell = "66" /\ FilteredThenSplit(i)

\* the model a search object holds once fitted
BestOf(search) == heap[heap[search].best_estimator_]

\* C3: fitting the estimator taken from best_estimator_ leaves the model held
\* by the search unchanged: after cell 42 KNN_tuned still holds the regressor
\* its own fit produced, and after cell 75 RFselector predicts with the forest
\* that produced y_pred.
C3_SearchModelUnchanged ==
  /\ KNNz # Unbound =>
       BestOf(KNN_tuned) =
         Fitted("KNeighborsRegressor", heap[KNN_tuned].best_params_,
                heap[KNN_tuned].X, heap[KNN_tuned].y)
  /\ pc = "done" => SearchPredict(heap[RFselector], X_test) = y_pred

\* C4: a failed step ends the run where it failed: the error is recorded, the
\* position and every variable of the namespace stay as they were (no
\* fallback value), and no step, the failed one included, runs afterwards.
C4_FailureEndsRun ==
  [][/\ err # "none" => UNCHANGED vars
     /\ err' # "none" => pc' = pc /\ UNCHANGED namespace]_vars

C4_Witness == err = "IndexError" /\ pc = "43" /\ zspec = Undef

\* rows of class c in a table
ClassRows(df, c) ==
  SumF([k \in RowKinds |-> IF Row(k).class = c THEN CountKind(df.runs, k) ELSE 0],
       RowKinds)

\* C5: before cleaning, the quasar, star and galaxy files have each contributed
\* the same number of rows, at most 1000, to all_sources.
C5_EqualNumbers ==
  pc = "51d" =>
    /\ ClassRows(all_sources, "QSO") = ClassRows(all_sources, "STAR")
    /\ ClassRows(all_sources, "STAR") = ClassRows(all_sources, "GALAXY")
    /\ ClassRows(all_sources, "QSO") <= HeadRows

FeatureColumns ==
  {"dered_r", "u_g_color", "g_r_color", "r_i_color", "i_z_color",
   "diff_u", "diff_g1", "diff_i", "diff_z"}
FeatureDimension == Cardinality(FeatureColumns)

\* C6: the feature matrix X, of the regression and of the classification, has
\* exactly 9 columns: dered_r, the four colours and the four magnitude
\* differences; objid, spec_z and class are not among them.
C6_NineFeatures ==
  X # Undef =>
    /\ Len(X.cols) = FeatureDimension /\ FeatureDimension = 3 * 3
    /\ ColumnSet(X.cols) = FeatureColumns
    /\ ColumnSet(X.cols) \cap {"objid", "spec_z", "class"} = {}

C6_Witness ==
  /\ pc = "58" /\ err = "none"
  /\ X = Values(all_features) /\ qso_features # Undef
  /\ Len(qso_features.cols) = FeatureDimension

\* the value last printed under a label
LastPrinted(label) ==
  LET I == {i \in 1..Len(stdout) : stdout[i].label = label}
  IN stdout[CHOOSE i \in I : \A j \in I : j <= i].value

\* C7: mse_linear, printed as 'Linear regression: MSE', is the mean squared
\* error of the linear model on the test set, mean((y_test - y_lr_pred)^2).
C7_MseLinearIsMse ==
  pc = "18" /\ err = "none" =>
    /\ mse_linear = MeanSquaredError(y_test.rows, y_lr_pred.pred)
    /\ LastPrinted("Linear regression: MSE = ") =
         MeanSquaredError(y_test.rows, y_lr_pred.pred)

\* mean over the rows of test of (y - mean(train))^2; with n and S the number
\* and the sum of train this is sum((n*y - S)^2) / (n*n*len(test))
MeanSquareAboutMeanOf(train, test) ==
  LET n == BagSize(train)
      S == SumF([k \in RowKinds |-> train[k] * Zs(k)], RowKinds)
  IN Rat(SumF([k \in RowKinds |-> test[k] * (n * Zs(k) - S) * (n * Zs(k) - S)],
              RowKinds),
         n * n * BagSize(test))

\* C8: the printed 'Naive MSE' is the mean over the test set y_test of
\* (y - mean(y_train))^2.
C8_NaiveMseOnTestSet ==
  pc = "20" /\ err = "none" =>
    LastPrinted("Naive MSE") = MeanSquareAboutMeanOf(y_train.rows, y_test.rows)

\* every combination of one value per name of a grid
Combinations(grid) ==
  {c \in [1..Len(grid) -> UNION {ColumnSet(grid[i].values) : i \in 1..Len(grid)}] :
     \A i \in 1..Len(grid) :
       \E j \in 1..Len(grid[i].values) : c[i] = grid[i].values[j]}

RfCombinations == Combinations(RfParamGrid)

ValuesOf(candidate) == [i \in 1..Len(candidate) |-> candidate[i].value]

\* the fitted search has scored each of the 3*2*2*2 = 24 combinations of
\* `parameters` on 3 folds of (X_train, y_train), and its best estimator is
\* a forest of the combination at best_index_, trained on (X_train, y_train)
SearchedWholeGrid(s) ==
  LET nc == Len(s.candidates)
  IN /\ nc = 3 * 2 * 2 * 2
     /\ {ValuesOf(s.candidates[c]) : c \in 1..nc} = RfCombinations
     /\ Cardinality(RfCombinations) = nc
     /\ s.cv = 3 /\ s.X = X_train /\ s.y = y_train
     /\ \A c \in 1..nc : Len(s.fold_scores[c]) = 3
     /\ \A i \in 1..Len(s.candidates[s.best_index_]) :
          heap[s.best_estimator_].params[i] = s.candidates[s.best_index_][i]
     /\ heap[s.best_estimator_].X = X_train /\ heap[s.best_estimator_].y = y_train

\* C9 as stated: the search scores all 24 combinations on 3 folds of
\* (X_train, y_train); the combination of best_estimator_ has the greatest
\* mean of its 3 fold scores, and best_score_ is that mean.
C9_BestOfGrid ==
  RFselector # Unbound =>
    LET s == heap[RFselector]
    IN /\ SearchedWholeGrid(s)
       /\ \A c \in 1..Len(s.candidates) :
            ~RatLess(Mean(s.fold_scores[s.best_index_]), Mean(s.fold_scores[c]))
       /\ s.best_score_ = Mean(s.fold_scores[s.best_index_])

\* m is the mean of the scores q weighted by w: m * sum(w) = sum(q * w)
IsWeightedMeanOf(m, q, w) ==
  /\ m.root = 1 /\ Len(w) = Len(q)
  /\ m.n * SumSeq(w) = m.d * SumSeq([f \in 1..Len(q) |-> q[f] * w[f]])

\* C9, amended: the search scores all 24 combinations on 3 folds of
\* (X_train, y_train); the 3 test folds together hold every row of X_train
\* once; each combination's mean_test_score is the mean of its 3 fold scores
\* weighted by the rows of the test folds; best_score_ is the greatest of
\* the 24 weighted means and is the one of best_estimator_'s combination.
C9_BestOfGridWeighted ==
  RFselector # Unbound =>
    LET s == heap[RFselector]
    IN /\ SearchedWholeGrid(s)
       /\ SumSeq(s.test_fold_sizes) = BagSize(X_train.rows)
       /\ \A c \in 1..Len(s.candidates) :
            /\ IsWeightedMeanOf(s.mean_test_score[c], s.fold_scores[c], s.test_fold_sizes)
            /\ ~RatLess(s.best_score_, s.mean_test_score[c])
       /\ s.best_score_ = s.mean_test_score[s.best_index_]

C9_Witness ==
  /\ pc = "69" /\ err = "none"
  /\ heap[RFselector].fitted /\ heap[RFselector].best_index_ > 1
  /\ heap[RFselector].test_fold_sizes[1] # heap[RFselector].test_fold_sizes[3]
  /\ heap[RFselector].best_score_ #
       Mean(heap[RFselector].fold_scores[heap[RFselector].best_index_])
  /\ \E c \in 1..Len(heap[RFselector].candidates) :
       RatLess(heap[RFselector].mean_test_score[c], heap[RFselector].best_score_)

\* C10: the value printed as 'Best OOB score' is the out-of-bag accuracy
\* oob_score_ of the best estimator the search selected.
C10_PrintedIsOobScore ==
  pc = "69" /\ err = "none" =>
    LastPrinted("Best OOB score:") = BestOf(RFselector).oob_score_

\* the rows of the array a tuning call of the regression section was given
RowsGiven(arg) ==
  IF arg = "X_train" THEN X_train.rows ELSE BagOf(X_scaled.runs)

TuningCells == {"24", "32"}

\* C11: the validation curve of cell 24 and the grid search of cell 32 are
\* given rows of the training split only: no row of X_test is among the rows
\* they fit and select on.
C11_TuningOnTrainingSplit ==
  pc \in {"26", "30", "32", "33", "38"} /\ err = "none" =>
    \A i \in 1..Len(calls) :
      calls[i].cell \in TuningCells =>
        \A k \in RowKinds : RowsGiven(calls[i].arg)[k] <= X_train.rows[k]

\* m is the arithmetic mean of the integers of row: m * len(row) = sum(row)
IsMeanOf(m, row) == m.root = 1 /\ m.n * Len(row) = SumSeq(row) * m.d

\* the square of a number [n, d, root]
Squared(s) == IF s.root = 2 THEN Rat(s.n, s.d) ELSE Rat(s.n * s.n, s.d * s.d)

\* s is the standard deviation of row about its mean m:
\* s^2 * len(row) = sum((x - m)^2)
IsStdOf(s, m, row) ==
  Squared(s).n * Len(row) * m.d * m.d =
    Squared(s).d * SumSeq([i \in 1..Len(row) |-> (m.d * row[i] - m.n) * (m.d * row[i] - m.n)])

\* curve L of the figure shows, for each of the 7 parameter values, the mean
\* of the 3 fold scores of that row of scores, inside a band of one standard
\* deviation of the same 3 scores below and above it
CurveShowsFoldMeans(L, scores) ==
  LET line == figure.lines[L]
      band == figure.fills[L].band
  IN /\ line.x = ParamRange /\ figure.fills[L].x = ParamRange
     /\ Len(ParamRange) = 7 /\ Len(scores) = 7
     /\ DOMAIN line.y = 1..7 /\ DOMAIN band = 1..7
     /\ \A c \in 1..7 :
          /\ Len(scores[c]) = 3
          /\ IsMeanOf(line.y[c], scores[c])
          /\ band[c].lo.mid = line.y[c] /\ band[c].lo.sign = -1
          /\ band[c].hi.mid = line.y[c] /\ band[c].hi.sign = 1
          /\ IsStdOf(band[c].lo.by, line.y[c], scores[c])
          /\ band[c].hi.by = band[c].lo.by

\* the value printed after the random-forest search, and the fold scores
\* of the combination it belongs to
PrintedSearchScore == LastPrinted("Best OOB score:")
BestFoldScores == heap[RFselector].fold_scores[heap[RFselector].best_index_]

\* the plotted validation curves and meanR2 are means over the folds
PlottedAndOuterMeans ==
  /\ figure # Undef =>
       /\ CurveShowsFoldMeans(1, training_scores)
       /\ CurveShowsFoldMeans(2, validation_scores)
  /\ meanR2 # Undef => Len(R2) = 3 /\ IsMeanOf(meanR2, R2)

\* C12 as stated: every cross-validation score the notebook reports is the
\* arithmetic mean of its per-fold scores: the points of the two validation
\* curves (with their bands of one standard deviation), meanR2, and the
\* grid-search score printed by cell 66.
C12_EveryScoreIsFoldMean ==
  /\ PlottedAndOuterMeans
  /\ pc = "69" /\ err = "none" => IsMeanOf(PrintedSearchScore, BestFoldScores)

\* C12, amended: plot_validation_curve plots, for each of the 7 values of
\* param_range, a training point and a validation point equal to the mean
\* over the 3 folds of the row of training_scores / validation_scores, with a
\* band of one standard deviation over the same folds around it, and meanR2
\* is the mean of the 3 outer-fold scores in R2; the grid-search score
\* printed by cell 66 is the mean of the fold scores weighted by the rows of
\* the test folds.
C12_ScoresAreFoldMeans ==
  /\ PlottedAndOuterMeans
  /\ pc = "69" /\ err = "none" =>
       IsWeightedMeanOf(PrintedSearchScore, BestFoldScores,
                        heap[RFselector].test_fold_sizes)

C12_Witness ==
  /\ pc = "69" /\ err = "none" /\ figure # Undef /\ meanR2 # Undef
  /\ ~IsMeanOf(PrintedSearchScore, BestFoldScores)
  /\ \E c \in 1..Len(validation_scores) :
       /\ figure.fills[2].band[c].lo.by.n > 0
       /\ validation_scores[c][1] # validation_scores[c][2]

\* the load of cell 7 has succeeded and the load of cell 51 has failed
FirstLoadedSecondMissing ==
  qsos # Undef /\ pc = "51a" /\ err = "FileNotFoundError"

\* C13: the two loads of the quasar catalogue are given the same path,
\* character for character, so that on a case-sensitive file system either
\* both find the file or neither does.
C13_SameQuasarPath ==
  /\ PathQsoRegression = PathQsoClass
  /\ caseSensitive =>
       /\ Exists(PathQsoRegression) <=> Exists(PathQsoClass)
       /\ ~FirstLoadedSecondMissing

====
